---- MODULE Spec2Model ----
(***************************************************************************)
(* gemini-image-mcp: the generate_image tool handler of src/index.js.      *)
(*                                                                         *)
(* Text is modelled as a sequence of tokens.  A token is either one of the *)
(* characters the code inspects (" ", "/", "~", ".", "-", "x", a digit, a  *)
(* letter) or a run of ordinary name characters ("proj", "home", ...).     *)
(***************************************************************************)
EXTENDS Integers, Sequences, FiniteSets, TLC

VARIABLES
    pc,        \* per invocation: position in the CallToolRequestSchema handler
    req,       \* per invocation: the normalized arguments (prompt, size, n, output, outDir)
    gen,       \* per invocation: the locals of generateImages (mode, count, out, i)
    images,    \* per invocation: the result of generateImages
    save,      \* per invocation: the locals of the save loop (batchId, i, saved, errors)
    resp,      \* per invocation: the tool response returned
    net,       \* per invocation: upstream requests issued / completed (observation)
    dirs,      \* filesystem: directories that exist
    files,     \* filesystem: path -> [by, idx] of the last write
    wrote,     \* per invocation: the paths it has written (observation)
    now,       \* wall clock, in ticks
    env,       \* process.env: the configuration the process was started with
    norm       \* request normalizer applied twice (observation of the pure transform)

vars == <<pc, req, gen, images, save, resp, net, dirs, files, wrote, now, env, norm>>

Min(a, b) == IF a < b THEN a ELSE b
Max(a, b) == IF a > b THEN a ELSE b

(***************************************************************************)
(* Text helpers                                                            *)
(***************************************************************************)
IsSpace(c) == c = " "

RECURSIVE TrimLeft(_)
TrimLeft(s) ==
    IF s = <<>> THEN <<>>
    ELSE IF IsSpace(Head(s)) THEN TrimLeft(Tail(s)) ELSE s

RECURSIVE TrimRight(_)
TrimRight(s) ==
    IF s = <<>> THEN <<>>
    ELSE IF IsSpace(s[Len(s)]) THEN TrimRight(SubSeq(s, 1, Len(s) - 1)) ELSE s

\* String.prototype.trim
Trim(s) == TrimRight(TrimLeft(s))

UpperLetters == <<"A", "B", "D", "E", "G", "H", "I", "L", "M", "N", "P", "S", "T">>
LowerLetters == <<"a", "b", "d", "e", "g", "h", "i", "l", "m", "n", "p", "s", "t">>

LowerOf(c) ==
    IF \E k \in 1..Len(UpperLetters) : UpperLetters[k] = c
    THEN LowerLetters[CHOOSE k \in 1..Len(UpperLetters) : UpperLetters[k] = c]
    ELSE c

\* String.prototype.toLowerCase
ToLowerCase(s) == [k \in 1..Len(s) |-> LowerOf(s[k])]

Digits == {"0", "1", "2", "3", "4", "5", "6", "7", "8", "9"}

DigitVal(c) ==
    CASE c = "0" -> 0 [] c = "1" -> 1 [] c = "2" -> 2 [] c = "3" -> 3
      [] c = "4" -> 4 [] c = "5" -> 5 [] c = "6" -> 6 [] c = "7" -> 7
      [] c = "8" -> 8 [] c = "9" -> 9

DigitChar(d) == <<"0", "1", "2", "3", "4", "5", "6", "7", "8", "9">>[d + 1]

RECURSIVE NatToText(_)
NatToText(k) == IF k < 10 THEN <<DigitChar(k)>> ELSE NatToText(k \div 10) \o <<DigitChar(k % 10)>>

\* String(value) of an integer
IntToText(k) == IF k < 0 THEN <<"-">> \o NatToText(-k) ELSE NatToText(k)

\* /^\d+$/.test(s)
AllDigits(s) == Len(s) > 0 /\ \A k \in 1..Len(s) : s[k] \in Digits

RECURSIVE DigitRun(_)
\* the longest prefix of s made of digits
DigitRun(s) ==
    IF s = <<>> \/ Head(s) \notin Digits THEN <<>> ELSE <<Head(s)>> \o DigitRun(Tail(s))

RECURSIVE DigitsValue(_)
DigitsValue(s) == IF s = <<>> THEN 0 ELSE 10 * DigitsValue(SubSeq(s, 1, Len(s) - 1)) + DigitVal(s[Len(s)])

\* Number.parseInt(text, 10): leading whitespace, an optional sign, then digits;
\* nan when no digit follows
ParseInt(s) ==
    LET t == TrimLeft(s)
        neg == t # <<>> /\ Head(t) = "-"
        u == IF t # <<>> /\ Head(t) \in {"-", "+"} THEN Tail(t) ELSE t
        r == DigitRun(u)
    IN  IF r = <<>> THEN [nan |-> TRUE, v |-> 0]
        ELSE [nan |-> FALSE, v |-> IF neg THEN -DigitsValue(r) ELSE DigitsValue(r)]

(***************************************************************************)
(* Loosely typed argument values: absent, an integer, a text, a list of    *)
(* texts.                                                                  *)
(***************************************************************************)
Absent == [t |-> "none"]
Num(k) == [t |-> "int", v |-> k]
Txt(s) == [t |-> "text", v |-> s]
Lst(l) == [t |-> "list", v |-> l]

\* a ?? b
Coalesce(a, b) == IF a.t = "none" THEN b ELSE a

\* String(value ?? ""); a list reaches String only through NormalizePrompt, which
\* joins it first
ToText(x) ==
    CASE x.t = "none" -> <<>>
      [] x.t = "int" -> IntToText(x.v)
      [] x.t = "text" -> x.v
      [] x.t = "list" -> <<>>

parseIntOr(value, fallback) ==
    LET k == ParseInt(ToText(value)) IN IF k.nan THEN fallback ELSE k.v

\* value is always finite here: parseIntOr has replaced NaN by its fallback
clampInt(value, lo, hi) == Max(lo, Min(hi, value))

(***************************************************************************)
(* node:path (POSIX)                                                       *)
(***************************************************************************)
RECURSIVE Split(_, _)
\* text.split("/"), cur being the segment collected so far
Split(s, cur) ==
    IF s = <<>> THEN <<cur>>
    ELSE IF Head(s) = "/" THEN <<cur>> \o Split(Tail(s), <<>>)
    ELSE Split(Tail(s), Append(cur, Head(s)))

RECURSIVE NormalizeSegs(_, _)
\* normalizeString: drops "" and ".", lets ".." remove the segment before it
NormalizeSegs(segs, acc) ==
    IF segs = <<>> THEN acc
    ELSE LET g == Head(segs) IN
         IF g = <<>> \/ g = <<".">> THEN NormalizeSegs(Tail(segs), acc)
         ELSE IF g = <<".", ".">>
              THEN NormalizeSegs(Tail(segs), IF acc = <<>> THEN acc ELSE SubSeq(acc, 1, Len(acc) - 1))
              ELSE NormalizeSegs(Tail(segs), Append(acc, g))

RECURSIVE JoinSegs(_)
JoinSegs(segs) ==
    IF segs = <<>> THEN <<>>
    ELSE IF Len(segs) = 1 THEN Head(segs)
    ELSE Head(segs) \o <<"/">> \o JoinSegs(Tail(segs))

\* path.isAbsolute
isAbsolute(p) == p # <<>> /\ Head(p) = "/"

\* path.normalize of an absolute path: a trailing separator is kept
NormalizeAbs(p) ==
    LET body == JoinSegs(NormalizeSegs(Split(p, <<>>), <<>>))
        trailing == p[Len(p)] = "/"
    IN  IF body = <<>> THEN <<"/">>
        ELSE <<"/">> \o body \o (IF trailing THEN <<"/">> ELSE <<>>)

\* path.join(base, rest) for an absolute base: empty parts are skipped
pathJoin(base, rest) ==
    IF rest = <<>> THEN NormalizeAbs(base) ELSE NormalizeAbs(base \o <<"/">> \o rest)

\* path.resolve(base, rel) for an absolute base: no trailing separator
pathResolve(base, rel) ==
    LET p == IF isAbsolute(rel) THEN rel ELSE base \o <<"/">> \o rel
        body == JoinSegs(NormalizeSegs(Split(p, <<>>), <<>>))
    IN  <<"/">> \o body

PROJECT_ROOT == <<"/", "proj">>
HomeDir == <<"/", "home">>

resolveOutDir(rawOutDir) ==
    LET outDir0 == Trim(ToText(rawOutDir))
        outDir == IF outDir0 # <<>> /\ Head(outDir0) = "~"
                  THEN pathJoin(HomeDir, Tail(outDir0)) ELSE outDir0
    IN  IF outDir0 = <<>> THEN pathJoin(PROJECT_ROOT, <<"debug-output">>)
        ELSE IF isAbsolute(outDir) THEN outDir
        ELSE pathResolve(PROJECT_ROOT, outDir)

(***************************************************************************)
(* Request normalization: the argument parsing of the tool handler          *)
(***************************************************************************)
DEFAULT_SIZE == <<"1", "0", "2", "4", "x", "1", "0", "2", "4">>
DEFAULT_OUTPUT == <<"p", "a", "t", "h">>
OutImage == <<"i", "m", "a", "g", "e">>
InlineSynonyms ==
    { OutImage,
      <<"b", "a", "s", "e", "6", "4">>,
      <<"b", "6", "4">>,
      <<"d", "a", "t", "a">>,
      <<"i", "n", "l", "i", "n", "e">> }

MinCount == 1
MaxCount == 4

RECURSIVE JoinSpace(_)
\* list.map((x) => String(x ?? "")).join(" ")
JoinSpace(l) ==
    IF l = <<>> THEN <<>>
    ELSE IF Len(l) = 1 THEN ToText(Head(l))
    ELSE ToText(Head(l)) \o <<" ">> \o JoinSpace(Tail(l))

NormalizePrompt(a) ==
    IF a.t = "list" THEN Trim(JoinSpace(a.v)) ELSE Trim(ToText(a))

NormalizeSize(a, envSize) ==
    LET size == Trim(ToText(Coalesce(a, Coalesce(envSize, Txt(DEFAULT_SIZE)))))
    IN  IF AllDigits(size) THEN size \o <<"x">> \o size ELSE size

NormalizeCount(a) == clampInt(parseIntOr(a, 1), MinCount, MaxCount)

NormalizeOutput(a, envReturn) ==
    LET outputRaw == ToLowerCase(Trim(ToText(Coalesce(a, Coalesce(envReturn, Txt(DEFAULT_OUTPUT))))))
    IN  IF outputRaw \in InlineSynonyms THEN OutImage ELSE DEFAULT_OUTPUT

NormalizeOutDir(args, envOutDir) ==
    resolveOutDir(Coalesce(args.outDir, Coalesce(args.out_dir,
                  Coalesce(args.outdir, Coalesce(args.output_dir, envOutDir)))))

\* the canonical request the handler works with
Normalize(args, e) ==
    [ prompt |-> NormalizePrompt(args.prompt),
      size   |-> NormalizeSize(args.size, e.size),
      n      |-> NormalizeCount(args.n),
      output |-> NormalizeOutput(args.output, e.ret),
      outDir |-> NormalizeOutDir(args, e.outDir) ]

\* a canonical request given back as the arguments of a call
AsArgs(c) ==
    [ prompt |-> Txt(c.prompt), size |-> Txt(c.size), n |-> Num(c.n),
      output |-> Txt(c.output), outDir |-> Txt(c.outDir),
      out_dir |-> Absent, outdir |-> Absent, output_dir |-> Absent ]

(***************************************************************************)
(* Images and upstream responses                                           *)
(***************************************************************************)
Procs == {1, 2}

\* base64 texts: "A" is a character of the base64 alphabet, "!" is not
B4 == <<"A", "A", "A", "A">>
B8 == <<"A", "A", "A", "A", "A", "A", "A", "A">>
Bad4 == <<"!", "!", "!", "!">>

RECURSIVE CountValid(_)
CountValid(t) ==
    IF t = <<>> THEN 0 ELSE (IF Head(t) = "A" THEN 1 ELSE 0) + CountValid(Tail(t))

\* Buffer.from(text, "base64").length: characters outside the alphabet are skipped
DecodedLen(t) ==
    LET v == CountValid(t)
    IN  (v \div 4) * 3 + (IF v % 4 = 2 THEN 1 ELSE IF v % 4 = 3 THEN 2 ELSE 0)

\* Buffer.from(bytes).toString("base64") of a body of b bytes
EncodeBytes(b) == [k \in 1..(4 * ((b + 2) \div 3)) |-> "A"]

\* isValidBase64: the text decodes to at least one byte and encoding those bytes
\* gives the text back, whitespace aside.  No caller: the handler never runs it.
isValidBase64(str) ==
    /\ Trim(str) # <<>>
    /\ DecodedLen(str) > 0
    /\ EncodeBytes(DecodedLen(str)) = SelectSeq(str, LAMBDA c : ~IsSpace(c))

Img(b64, mime) == [base64 |-> b64, mimeType |-> mime]

\* the answer to a GET of an image URL
GetOk(bytes, ctype) == [st |-> "ok", bytes |-> bytes, ctype |-> ctype]
GetFail(st) == [st |-> st, bytes |-> 0, ctype |-> "none"]
NoGet == GetFail("unused")

\* one entry of an upstream response
Entry(k, mime, b64, g) == [k |-> k, mime |-> mime, b64 |-> b64, get |-> g]

\* a POST's answer
PostOk(items) == [st |-> "ok", items |-> items]
PostFail(st) == [st |-> st, items |-> <<>>]

HttpFailures == {"http404", "http500", "http401"}
NetFailures == {"net", "timeout"}

RECURSIVE SeqsUpTo(_, _)
\* the sequences over S of length at most k
SeqsUpTo(S, k) ==
    IF k = 0 THEN {<<>>}
    ELSE LET shorter == SeqsUpTo(S, k - 1)
         IN  shorter \cup {Append(q, x) : q \in {r \in shorter : Len(r) = k - 1}, x \in S}

\* fetchUrlAsBase64: the image, or the failure thrown
fetchUrlAsBase64(g) ==
    IF g.st = "ok"
    THEN [ok |-> TRUE, err |-> "",
          img |-> Img(EncodeBytes(g.bytes), IF g.ctype = "none" THEN "image/png" ELSE g.ctype)]
    ELSE [ok |-> FALSE, err |-> "get_" \o g.st, img |-> Img(<<>>, "")]

\* one item of an images/generations answer: pushed, skipped or thrown
ImagesItem(e) ==
    CASE e.k = "b64"  -> [ok |-> TRUE, err |-> "", imgs |-> <<Img(e.b64, "image/png")>>]
      [] e.k = "data" -> [ok |-> TRUE, err |-> "", imgs |-> <<Img(e.b64, e.mime)>>]
      [] e.k = "url"  -> LET f == fetchUrlAsBase64(e.get)
                         IN  [ok |-> f.ok, err |-> f.err, imgs |-> IF f.ok THEN <<f.img>> ELSE <<>>]
      [] OTHER        -> [ok |-> TRUE, err |-> "", imgs |-> <<>>]

\* one images[] entry of a chat/completions answer
ChatItem(e) ==
    CASE e.k = "data" -> [ok |-> TRUE, err |-> "", imgs |-> <<Img(e.b64, e.mime)>>]
      [] e.k \in {"url", "b64"} ->
                         LET f == fetchUrlAsBase64(e.get)
                         IN  [ok |-> f.ok, err |-> f.err, imgs |-> IF f.ok THEN <<f.img>> ELSE <<>>]
      [] OTHER        -> [ok |-> TRUE, err |-> "", imgs |-> <<>>]

RECURSIVE Collect(_, _, _)
\* the for loop over the entries: stops at the first throw
Collect(items, acc, chat) ==
    IF items = <<>> THEN [ok |-> TRUE, err |-> "", imgs |-> acc]
    ELSE LET r == IF chat THEN ChatItem(Head(items)) ELSE ImagesItem(Head(items))
         IN  IF ~r.ok THEN [ok |-> FALSE, err |-> r.err, imgs |-> <<>>]
             ELSE Collect(Tail(items), acc \o r.imgs, chat)

\* what one generateImagesVia... call returns or throws, given the POST's answer
ParseAnswer(a, chat) ==
    IF a.st # "ok" THEN [ok |-> FALSE, err |-> a.st, imgs |-> <<>>]
    ELSE LET c == Collect(a.items, <<>>, chat)
         IN  IF ~c.ok THEN c
             ELSE IF Len(c.imgs) = 0 THEN [ok |-> FALSE, err |-> "no_images", imgs |-> <<>>]
             ELSE c

generateImagesViaImagesApi(a) == ParseAnswer(a, FALSE)

\* a plausible slip: a call whose answer holds no image returns an empty batch
ChatCompletionsAllowingEmpty(a) ==
    IF a.st # "ok" THEN [ok |-> FALSE, err |-> a.st, imgs |-> <<>>]
    ELSE Collect(a.items, <<>>, TRUE)

generateImagesViaChatCompletions(a) == ParseAnswer(a, TRUE)

(***************************************************************************)
(* The tool handler                                                        *)
(***************************************************************************)
ModeImages == <<"i", "m", "a", "g", "e", "s">>
ModeAuto == <<"a", "u", "t", "o">>
ModeChat == <<"c", "h", "a", "t">>

\* String(process.env.OPENAI_IMAGE_MODE ?? "chat").trim().toLowerCase()
ReadMode(envMode) == ToLowerCase(Trim(ToText(Coalesce(envMode, Txt(ModeChat)))))

DefaultInlineMax == 524288
TicksPerSecond == 2

GenNone == [count |-> 0, out |-> <<>>, i |-> 0]
SaveNone == [batchId |-> [ts |-> 0, rnd |-> 0], i |-> 0, saved |-> <<>>, errors |-> <<>>]
ReqNone == [prompt |-> <<>>, size |-> <<>>, n |-> 0, output |-> <<>>, outDir |-> <<>>]
RespNone == [st |-> "none", err |-> "", content |-> <<>>]
NetNone == [log |-> <<>>, arrived |-> <<>>]

NoPath == [dir |-> <<>>, ts |-> 0, rnd |-> 0, idx |-> 0, ext |-> ""]

TextItem(lines) == [type |-> "text", lines |-> lines, mimeType |-> "", data |-> <<>>]
ImageItem(mime, data) == [type |-> "image", lines |-> <<>>, mimeType |-> mime, data |-> data]

\* the catch block's answer, and the two early returns: one text item, isError set
ErrorResponse(why) == [st |-> "error", err |-> why, content |-> <<TextItem(<<[k |-> "fail", path |-> NoPath, idx |-> 0, why |-> why]>>)>>]

\* net.log: one entry per POST, in the order issued
\* have: images that had arrived when the POST was issued; usable: entries of the
\* answer that carry a payload or a URL; getFailed: a GET of one of them failed
Issue(log, ep, have) ==
    Append(log, [ep |-> ep, st |-> "pending", have |-> have, usable |-> 0, getFailed |-> FALSE])
Complete(log, a) ==
    [log EXCEPT ![Len(log)].st = a.st,
                ![Len(log)].usable = Cardinality({k \in 1..Len(a.items) : a.items[k].k # "skip"}),
                ![Len(log)].getFailed = \E k \in 1..Len(a.items) :
                                           a.items[k].k = "url" /\ a.items[k].get.st # "ok"]

extFromMime(mimeType) ==
    CASE mimeType \in {"image/jpeg", "image/jpg"} -> "jpg"
      [] mimeType = "image/webp" -> "webp"
      [] mimeType = "image/gif" -> "gif"
      [] OTHER -> "png"

\* formatDateForFilename: the clock to the second
formatDateForFilename(t) == t \div TicksPerSecond

\* path.join(outDir, `image-${batchId}-${i}.${ext}`)
filePath(outDir, batchId, idx, ext) ==
    [dir |-> pathResolve(outDir, <<>>), ts |-> batchId.ts, rnd |-> batchId.rnd, idx |-> idx, ext |-> ext]

\* a plausible slip: the early break is left out
ChatContinuesNoBreak(outLen, count, i) == i + 1 < count

\* the loop condition of the chat loop after a batch: TRUE when another POST follows
ChatContinues(outLen, count, i) == outLen < count /\ i + 1 < count

\* out.slice(0, count)
SliceCount(out, count) == SubSeq(out, 1, Min(count, Len(out)))

\* a plausible slip: the size test is left out
InlineWithinUnchecked(imgs, inlineMaxSize) ==
    [j \in 1..Len(imgs) |-> ImageItem(imgs[j].mimeType, imgs[j].base64)]

\* the images whose estimated size is within the budget, as attached payloads
RECURSIVE InlineWithin(_, _)
InlineWithin(imgs, inlineMaxSize) ==
    IF imgs = <<>> THEN <<>>
    ELSE LET img == Head(imgs)
             rest == InlineWithin(Tail(imgs), inlineMaxSize)
         IN  IF img.base64 # <<>> /\ 3 * Len(img.base64) <= 4 * inlineMaxSize
             THEN <<ImageItem(IF img.mimeType = "" THEN "image/png" ELSE img.mimeType, img.base64)>> \o rest
             ELSE rest

\* lines 557-572: inlineMaxSize = parseIntOr(env, 512 * 1024)
InlineAttachments(imgs, envBudget) ==
    LET inlineMaxSize == parseIntOr(envBudget, DefaultInlineMax)
    IN  IF inlineMaxSize > 0 THEN InlineWithin(imgs, inlineMaxSize) ELSE <<>>

RECURSIVE SavedLines(_)
SavedLines(saved) ==
    IF saved = <<>> THEN <<>>
    ELSE <<[k |-> "md", path |-> Head(saved), idx |-> 0, why |-> ""],
           [k |-> "path", path |-> Head(saved), idx |-> 0, why |-> ""]>> \o SavedLines(Tail(saved))

\* resultLines
Summary(saved, errors) ==
    (IF Len(saved) > 0
     THEN <<[k |-> "ok_header", path |-> NoPath, idx |-> Len(saved), why |-> ""]>> \o SavedLines(saved)
     ELSE <<>>)
    \o
    (IF Len(errors) > 0
     THEN <<[k |-> "err_header", path |-> NoPath, idx |-> 0, why |-> ""]>>
          \o [j \in 1..Len(errors) |-> [k |-> "err", path |-> NoPath, idx |-> errors[j].idx, why |-> errors[j].why]]
     ELSE <<>>)

\* the output === "image" branch
InlineResponse(imgs) ==
    [st |-> "ok", err |-> "",
     content |-> [j \in 1..Len(imgs) |-> ImageItem(imgs[j].mimeType, imgs[j].base64)]]

PathResponse(imgs, saved, errors, envBudget) ==
    [st |-> "ok", err |-> "",
     content |-> <<TextItem(Summary(saved, errors))>> \o InlineAttachments(imgs, envBudget)]

\* a plausible slip: the first unusable item ends the loop (break for continue)
SkipUnwritableAborting(imgs, i, errors) ==
    IF i > Len(imgs) THEN [next |-> i, errors |-> errors]
    ELSE IF imgs[i].base64 = <<>> \/ DecodedLen(imgs[i].base64) = 0
         THEN [next |-> Len(imgs) + 1, errors |-> Append(errors, [idx |-> i, why |-> "invalid"])]
    ELSE [next |-> i, errors |-> errors]

\* the synchronous part of the save loop from index i on: items with unusable data
\* are recorded until one needs a write (next <= Len(imgs)) or the loop ends
RECURSIVE SkipUnwritable(_, _, _)
SkipUnwritable(imgs, i, errors) ==
    IF i > Len(imgs) THEN [next |-> i, errors |-> errors]
    ELSE IF imgs[i].base64 = <<>>
         THEN SkipUnwritable(imgs, i + 1, Append(errors, [idx |-> i, why |-> "invalid"]))
    ELSE IF DecodedLen(imgs[i].base64) = 0
         THEN SkipUnwritable(imgs, i + 1, Append(errors, [idx |-> i, why |-> "empty"]))
    ELSE [next |-> i, errors |-> errors]

(***************************************************************************)
(* Inputs: what a caller and the environment may hand to one invocation    *)
(***************************************************************************)
MaxItems == 2
MaxTick == 2
MaxRand == 2

GENERATE_IMAGE == "generate_image"

Args(prompt, size, n, output, outDir) ==
    [ prompt |-> prompt, size |-> size, n |-> n, output |-> output, outDir |-> outDir,
      out_dir |-> Absent, outdir |-> Absent, output_dir |-> Absent ]

EnvOf(mode, budget) ==
    [mode |-> mode, budget |-> budget, size |-> Absent, ret |-> Absent, outDir |-> Absent]
EnvNone == EnvOf(Absent, Absent)

GetFailures == {GetFail("http404"), GetFail("net")}

ChatEntries ==
    { Entry("data", "image/png", B4, NoGet),
      Entry("data", "image/jpeg", B8, NoGet),
      Entry("skip", "", <<>>, NoGet) }
    \cup {Entry("url", "", <<>>, g) : g \in {GetOk(3, "none")} \cup GetFailures}

ImagesEntries ==
    { Entry("b64", "", B4, NoGet),
      Entry("data", "image/jpeg", B8, NoGet),
      Entry("b64", "", Bad4, NoGet),
      Entry("skip", "", <<>>, NoGet) }
    \cup {Entry("url", "", <<>>, g) : g \in {GetOk(3, "none"), GetOk(0, "image/jpeg")} \cup GetFailures}

PostAnswers(entries) ==
    {PostOk(items) : items \in SeqsUpTo(entries, MaxItems)}
    \cup {PostFail(st) : st \in HttpFailures \cup NetFailures}

\* one invocation, any arguments, any dialect; with a single invocation the value
\* of the batch identifier plays no part, so one clock reading and one draw suffice
FullMenu ==
    [ tools   |-> {GENERATE_IMAGE, "other_tool"},
      args    |-> { Args(pr, Num(512), n, o, Absent) :
                      pr \in {Txt(<<"a", " ", "cat">>), Lst(<<Txt(<<" ">>), Absent>>)},
                      n \in {Absent, Num(2), Txt(<<" ", "3", "x">>), Num(9), Num(-1)},
                      o \in {Absent, Txt(<<"I", "n", "l", "i", "n", "e">>)} },
      env     |-> { EnvOf(m, b) :
                      m \in {Absent, Txt(ModeImages), Txt(<<" ", "A", "u", "t", "o">>), Txt(<<"x">>)},
                      b \in {Absent, Txt(<<"0">>), Txt(<<"3">>)} },
      images  |-> PostAnswers(ImagesEntries),
      chat    |-> PostAnswers(ChatEntries),
      fsOk    |-> {TRUE, FALSE},
      clock   |-> {0},
      rnd     |-> {0} ]

\* invocations in Path mode sharing the default output directory, chat dialect
ConcMenu ==
    [ tools   |-> {GENERATE_IMAGE},
      args    |-> {Args(Txt(<<"a">>), Absent, n, Absent, Absent) : n \in {Absent, Num(2)}},
      env     |-> {EnvNone},
      images  |-> {},
      chat    |-> {PostOk(<<Entry("data", "image/png", B4, NoGet)>>), PostFail("http500")},
      fsOk    |-> {TRUE, FALSE},
      clock   |-> 0..MaxTick,
      rnd     |-> 0..(MaxRand - 1) ]

\* argument bags for the normalizer alone
MaxPathLen == 3
PathTokens == {"a", " ", "/", "~", "."}

EnvSet ==
    [ mode |-> Absent, budget |-> Absent,
      size |-> Txt(<<"2", "5", "6">>), ret |-> Txt(<<"B", "6", "4">>),
      outDir |-> Txt(<<"/", "env">>) ]

NormPrompts ==
    { Txt(<<"a">>), Txt(<<" ", "a", " ", "b", " ">>), Lst(<<Txt(<<"a">>), Absent, Num(7)>>),
      Lst(<<Txt(<<" ">>)>>), Absent }
NormSizes ==
    { Absent, Num(512), Txt(<<" ", "5", "1", "2">>), Txt(<<"1", "0", "2", "4", "x", "1", "7", "9", "2">>),
      Txt(<<" ">>) }
NormCounts ==
    { Absent, Num(0), Num(3), Num(-2), Num(12), Txt(<<"2", "x">>), Txt(<<" ", "4">>), Txt(<<"a">>) }
NormOutputs ==
    { Absent, Txt(<<"b", "6", "4">>), Txt(<<" ", "I", "M", "A", "G", "E", " ">>),
      Txt(<<"p", "a", "t", "h">>), Txt(<<"f", "i", "l", "e">>) }

NormArgs ==
    { Args(pr, sz, n, o, Absent) : pr \in NormPrompts, sz \in NormSizes, n \in NormCounts, o \in NormOutputs }
    \cup { Args(Txt(<<"a">>), Absent, Absent, Absent, Txt(d)) : d \in SeqsUpTo(PathTokens, MaxPathLen) }
    \cup { [Args(Txt(<<"a">>), Absent, Absent, Absent, Absent) EXCEPT !.out_dir = Txt(<<"x">>), !.outdir = Txt(<<"~">>)],
           [Args(Txt(<<"a">>), Absent, Absent, Absent, Absent) EXCEPT !.output_dir = Txt(<<"/", "y", "/">>)] }

(***************************************************************************)
(* Actions                                                                 *)
(***************************************************************************)
Set(p, pcv, reqv, genv, imagesv, savev, respv, netv) ==
    /\ pc' = [pc EXCEPT ![p] = pcv]
    /\ req' = [req EXCEPT ![p] = reqv]
    /\ gen' = [gen EXCEPT ![p] = genv]
    /\ images' = [images EXCEPT ![p] = imagesv]
    /\ save' = [save EXCEPT ![p] = savev]
    /\ resp' = [resp EXCEPT ![p] = respv]
    /\ net' = [net EXCEPT ![p] = netv]

\* a plausible slip: the files are written whatever the output mode
ReturnSavingAlways(p, imgs, netv) ==
    Set(p, "mkdir", req[p], GenNone, imgs, save[p], resp[p], netv)

\* generateImages returned imgs: the inline answer, or fs.mkdir is awaited
Return(p, imgs, netv) ==
    IF req[p].output = OutImage
    THEN Set(p, "done", req[p], GenNone, imgs, save[p], InlineResponse(imgs), netv)
    ELSE Set(p, "mkdir", req[p], GenNone, imgs, save[p], resp[p], netv)

\* a plausible slip: a failing call of the loop hands back what had accumulated
FailReturningPartial(p, why, netv) ==
    IF gen[p].out # <<>>
    THEN Return(p, gen[p].out, netv)
    ELSE Set(p, "done", req[p], GenNone, images[p], save[p], ErrorResponse(why), netv)

\* something threw inside the try block: the handler's catch block answers
Fail(p, why, netv) ==
    Set(p, "done", req[p], GenNone, images[p], save[p], ErrorResponse(why), netv)

\* the request arrives: argument checks, normalization, and generateImages up to
\* its first POST.  pc tells which branch of generateImages awaits an answer:
\* "images_post" (mode images), "auto_post" (mode auto, images/generations),
\* "auto_chat_post" (mode auto, the loop after a 404), "chat_post" (the default loop)
Call(p, M) ==
    /\ pc[p] = "idle"
    /\ \E tool \in M.tools, args \in M.args :
         LET r == Normalize(args, env)
             mode == ReadMode(env.mode)
             count == IF mode = ModeImages THEN 0
                      ELSE clampInt(parseIntOr(Num(r.n), 1), MinCount, MaxCount)
             first == IF mode \in {ModeImages, ModeAuto} THEN "images" ELSE "chat"
             at == IF mode = ModeImages THEN "images_post"
                   ELSE IF mode = ModeAuto THEN "auto_post" ELSE "chat_post"
         IN  IF tool # GENERATE_IMAGE
             THEN Set(p, "done", req[p], gen[p], images[p], save[p], ErrorResponse("unknown_tool"), net[p])
             ELSE IF r.prompt = <<>>
             THEN Set(p, "done", req[p], gen[p], images[p], save[p], ErrorResponse("empty_prompt"), net[p])
             ELSE Set(p, at, r, [count |-> count, out |-> <<>>, i |-> 0],
                      images[p], save[p], resp[p],
                      [net[p] EXCEPT !.log = Issue(@, first, 0)])
    /\ UNCHANGED <<dirs, files, wrote, now, env, norm>>

\* a plausible slip: every HttpError switches the dialect
FallsBackOnAnyHttpError(at, err) == at = "auto_post" /\ err \in HttpFailures

\* a plausible slip: a 404 answered to an image-URL GET counts as the endpoint's 404
FallsBackOnAny404(at, err) == at = "auto_post" /\ err \in {"http404", "get_http404"}

\* err instanceof HttpError && err.status === 404, inside the auto branch
FallsBackToChat(at, err) == at = "auto_post" /\ err = "http404"

\* the images/generations POST is answered
ImagesRespond(p, M) ==
    /\ pc[p] \in {"images_post", "auto_post"}
    /\ \E a \in M.images :
         LET r == generateImagesViaImagesApi(a)
             netv == [net[p] EXCEPT !.log = Complete(@, a)]
         IN  IF r.ok THEN Return(p, r.imgs, netv)
             ELSE IF FallsBackToChat(pc[p], r.err)
             THEN Set(p, "auto_chat_post", req[p], [gen[p] EXCEPT !.out = <<>>, !.i = 0],
                      images[p], save[p], resp[p], [netv EXCEPT !.log = Issue(@, "chat", 0)])
             ELSE Fail(p, r.err, netv)
    /\ UNCHANGED <<dirs, files, wrote, now, env, norm>>

\* a chat/completions POST is answered: one iteration of the count loop
ChatRespond(p, M) ==
    /\ pc[p] \in {"chat_post", "auto_chat_post"}
    /\ \E a \in M.chat :
         LET r == generateImagesViaChatCompletions(a)
             netv == [net[p] EXCEPT !.log = Complete(@, a), !.arrived = @ \o r.imgs]
             out == gen[p].out \o r.imgs
         IN  IF ~r.ok THEN Fail(p, r.err, netv)
             ELSE IF ChatContinues(Len(out), gen[p].count, gen[p].i)
             THEN Set(p, pc[p], req[p], [gen[p] EXCEPT !.out = out, !.i = @ + 1],
                      images[p], save[p], resp[p],
                      [netv EXCEPT !.log = Issue(@, "chat", Len(netv.arrived))])
             ELSE Return(p, SliceCount(out, gen[p].count), netv)
    /\ UNCHANGED <<dirs, files, wrote, now, env, norm>>

\* the save loop from index i on, up to the next awaited write or the answer
Advance(p, batchId, i, saved, errors) ==
    LET sk == SkipUnwritable(images[p], i, errors)
        sv == [batchId |-> batchId, i |-> sk.next, saved |-> saved, errors |-> sk.errors]
    IN  IF sk.next <= Len(images[p])
        THEN Set(p, "write", req[p], gen[p], images[p], sv, resp[p], net[p])
        ELSE Set(p, "done", req[p], gen[p], images[p], sv,
                 PathResponse(images[p], saved, sk.errors, env.budget), net[p])

\* fs.mkdir(outDir, {recursive: true}) is answered; the batch identifier is drawn
Mkdir(p, M) ==
    /\ pc[p] = "mkdir"
    /\ \E ok \in M.fsOk, t \in M.clock, rnd \in M.rnd :
         /\ t >= now
         /\ now' = t
         /\ IF ok
            THEN /\ dirs' = dirs \cup {pathResolve(req[p].outDir, <<>>)}
                 /\ Advance(p, [ts |-> formatDateForFilename(t), rnd |-> rnd], 1, <<>>, <<>>)
            ELSE /\ dirs' = dirs
                 /\ Fail(p, "mkdir", net[p])
    /\ UNCHANGED <<files, wrote, env, norm>>

\* fs.writeFile(filePath, buffer) of item save.i is answered
WriteDone(p, M) ==
    /\ pc[p] = "write"
    /\ \E ok \in M.fsOk :
         LET i == save[p].i
             path == filePath(req[p].outDir, save[p].batchId, i, extFromMime(images[p][i].mimeType))
         IN  IF ok
             THEN /\ files' = [q \in DOMAIN files \cup {path} |->
                                 IF q = path THEN [by |-> p, idx |-> i] ELSE files[q]]
                  /\ wrote' = [wrote EXCEPT ![p] = @ \cup {path}]
                  /\ Advance(p, save[p].batchId, i + 1, Append(save[p].saved, path), save[p].errors)
             ELSE /\ UNCHANGED <<files, wrote>>
                  /\ Advance(p, save[p].batchId, i + 1, save[p].saved,
                             Append(save[p].errors, [idx |-> i, why |-> "write"]))
    /\ UNCHANGED <<dirs, now, env, norm>>

NormOff == [stage |-> "off"]

\* the normalizer applied to an argument bag
NormFirst ==
    /\ norm.stage = "raw"
    /\ LET r == Normalize(norm.args, env)
       IN  norm' = IF r.prompt = <<>>
                   THEN [norm EXCEPT !.stage = "rejected"]
                   ELSE [norm EXCEPT !.stage = "once", !.first = r]
    /\ UNCHANGED <<pc, req, gen, images, save, resp, net, dirs, files, wrote, now, env>>

\* the normalizer applied to its own canonical request
NormSecond ==
    /\ norm.stage = "once"
    /\ norm' = [norm EXCEPT !.stage = "twice", !.second = Normalize(AsArgs(norm.first), env)]
    /\ UNCHANGED <<pc, req, gen, images, save, resp, net, dirs, files, wrote, now, env>>

\* no invocation has arrived, nothing has been written
Idle ==
    /\ pc = [p \in Procs |-> "idle"]
    /\ req = [p \in Procs |-> ReqNone]
    /\ gen = [p \in Procs |-> GenNone]
    /\ images = [p \in Procs |-> <<>>]
    /\ save = [p \in Procs |-> SaveNone]
    /\ resp = [p \in Procs |-> RespNone]
    /\ net = [p \in Procs |-> NetNone]
    /\ dirs = {}
    /\ files = <<>>
    /\ wrote = [p \in Procs |-> {}]
    /\ now = 0

Init ==
    /\ Idle
    /\ env \in FullMenu.env
    /\ norm = NormOff

\* one invocation
Next ==
    \E p \in {1} :
        \/ Call(p, FullMenu)
        \/ ImagesRespond(p, FullMenu)
        \/ ChatRespond(p, FullMenu)
        \/ Mkdir(p, FullMenu)
        \/ WriteDone(p, FullMenu)

Spec == Init /\ [][Next]_vars

\* two invocations dispatched concurrently
NextConc ==
    \E p \in Procs :
        \/ Call(p, ConcMenu)
        \/ ChatRespond(p, ConcMenu)
        \/ Mkdir(p, ConcMenu)
        \/ WriteDone(p, ConcMenu)

InitConc ==
    /\ Idle
    /\ env \in ConcMenu.env
    /\ norm = NormOff

SpecConc == InitConc /\ [][NextConc]_vars

InitNorm ==
    /\ Idle
    /\ env \in {EnvNone, EnvSet}
    /\ \E a \in NormArgs :
         norm = [stage |-> "raw", args |-> a, first |-> ReqNone, second |-> ReqNone]

NextNorm == NormFirst \/ NormSecond

SpecNorm == InitNorm /\ [][NextNorm]_vars

(***************************************************************************)
(* Properties                                                              *)
(***************************************************************************)
Done(p) == pc[p] = "done"
Succeeded(p) == Done(p) /\ resp[p].st = "ok"
Failed(p) == Done(p) /\ resp[p].st = "error"
PathMode(p) == req[p].output = DEFAULT_OUTPUT
InlineMode(p) == req[p].output = OutImage

\* C1: a successful invocation, in every dialect mode and for every upstream
\* answer, carries between 1 and k images (k = the clamped count), and in Path
\* mode writes at most k files.
C1_OutcomeWithinCount ==
    \A p \in Procs :
        Succeeded(p) =>
            /\ 1 <= Len(images[p])
            /\ Len(images[p]) <= req[p].n
            /\ PathMode(p) => Cardinality(wrote[p]) <= req[p].n

Log(p) == net[p].log
Last(q) == q[Len(q)]
ChatPosts(p) == {k \in 1..Len(Log(p)) : Log(p)[k].ep = "chat"}
ImagesPosts(p) == {k \in 1..Len(Log(p)) : Log(p)[k].ep = "images"}
\* the invocation got past the argument checks
Started(p) == pc[p] # "idle" /\ ~(Failed(p) /\ resp[p].err \in {"unknown_tool", "empty_prompt"})
AutoMode(p) == ReadMode(env.mode) = ModeAuto /\ Started(p)
ChatMode(p) == ReadMode(env.mode) \notin {ModeAuto, ModeImages} /\ Started(p)
Prefix(q, k) == SubSeq(q, 1, Min(k, Len(q)))
OneTextOnly(p) == Len(resp[p].content) = 1 /\ resp[p].content[1].type = "text"

\* C2: in auto mode the images/generations POST comes first; a 404 answer to it is
\* followed by exactly one chat loop (at most count POSTs, no second
\* images/generations POST) whose outcome is the invocation's; any other failure
\* of it ends the invocation with that failure and no chat POST is ever issued.
C2_AutoFallbackOnlyOn404 ==
    \A p \in Procs :
        AutoMode(p) =>
            /\ Log(p) # <<>>
            /\ Log(p)[1].ep = "images"
            /\ ImagesPosts(p) = {1}
            /\ Log(p)[1].st = "http404" =>
                   /\ ChatPosts(p) = 2..Len(Log(p))
                   /\ 1 <= Cardinality(ChatPosts(p))
                   /\ Cardinality(ChatPosts(p)) <= req[p].n
                   /\ Succeeded(p) => images[p] = Prefix(net[p].arrived, req[p].n)
                   /\ Failed(p) /\ Last(Log(p)).st # "ok" => resp[p].err = Last(Log(p)).st
            /\ Log(p)[1].st \notin {"http404", "pending"} => ChatPosts(p) = {}
            /\ Log(p)[1].st \in (HttpFailures \cup NetFailures) \ {"http404"} =>
                   /\ Failed(p)
                   /\ resp[p].err = Log(p)[1].st
                   /\ OneTextOnly(p)

C2_Witness ==
    \E p \in Procs :
        /\ AutoMode(p)
        /\ Log(p)[1].st = "http404"
        /\ Cardinality(ChatPosts(p)) = 2
        /\ Succeeded(p)

\* C3: the chat POSTs of one invocation are issued one after another (only the
\* last POST issued can be unanswered), at least 1 and at most count of them; none
\* is issued once count images have arrived; a successful outcome is the first
\* min(count, arrived) images in arrival order.
C3_ChatLoopSequentialBounded ==
    \A p \in Procs :
        ChatMode(p) =>
            /\ \A k \in 1..(Len(Log(p)) - 1) : Log(p)[k].st # "pending"
            /\ ChatPosts(p) = 1..Len(Log(p))
            /\ 1 <= Len(Log(p))
            /\ Len(Log(p)) <= req[p].n
            /\ \A k \in ChatPosts(p) : Log(p)[k].have < req[p].n
            /\ pc[p] \in {"mkdir", "write"} \/ Succeeded(p) =>
                   /\ images[p] = Prefix(net[p].arrived, req[p].n)
                   /\ Len(images[p]) <= req[p].n

C3_Witness ==
    \E p \in Procs :
        /\ ChatMode(p)
        /\ Succeeded(p)
        /\ Len(Log(p)) = 2
        /\ Len(net[p].arrived) = 3
        /\ Len(images[p]) = 2

\* C4 (as claimed): in the chat loop an answer without image entries does not
\* fail the invocation; the "no usable image data" error is raised only when all
\* count calls were made and nothing has accumulated.
C4_EmptyAnswerNotFatal ==
    \A p \in Procs :
        ChatPosts(p) # {} /\ Failed(p) /\ resp[p].err = "no_images" =>
            /\ Cardinality(ChatPosts(p)) = req[p].n
            /\ net[p].arrived = <<>>

\* C4 (amended): in the chat loop a 2xx answer without usable image entries fails
\* the invocation at once with the "no usable image data" error: it is the last
\* POST of the loop, whatever calls remain and whatever had accumulated.
C4_EmptyAnswerFatal ==
    \A p \in Procs : \A k \in ChatPosts(p) :
        Log(p)[k].st = "ok" /\ Log(p)[k].usable = 0 =>
            /\ k = Len(Log(p))
            /\ Failed(p)
            /\ resp[p].err = "no_images"
            /\ OneTextOnly(p)

C4_Witness ==
    \E p \in Procs :
        /\ ChatMode(p)
        /\ req[p].n = 4
        /\ Len(Log(p)) = 2
        /\ net[p].arrived # <<>>
        /\ Log(p)[2].st = "ok" /\ Log(p)[2].usable = 0
        /\ Failed(p)

\* C5: when a call of the chat loop fails (non-2xx, network failure, timeout, or a
\* failed GET of an image URL), the response is an error with a single text
\* message; the images of the earlier calls are not returned and no file is
\* written.
C5_LoopFailureIsError ==
    \A p \in Procs : \A k \in ChatPosts(p) :
        \/ Log(p)[k].st \in HttpFailures \cup NetFailures
        \/ Log(p)[k].st = "ok" /\ Log(p)[k].getFailed
        =>  /\ k = Len(Log(p))
            /\ Failed(p)
            /\ OneTextOnly(p)
            /\ images[p] = <<>>
            /\ wrote[p] = {}
            /\ dirs = {}

C5_Witness ==
    \E p \in Procs :
        /\ ChatMode(p)
        /\ Len(Log(p)) = 3
        /\ Len(net[p].arrived) = 2
        /\ Last(Log(p)).st = "http500"
        /\ Failed(p)

Budget == parseIntOr(env.budget, DefaultInlineMax)
Attached(p) == {j \in 1..Len(resp[p].content) : resp[p].content[j].type = "image"}
WithinBudget(data) == Budget > 0 /\ 3 * Len(data) <= 4 * Budget

\* C6 (as claimed): in every successful response, Path or Inline, no attached
\* image has an estimated size (3/4 of its base64 length) over the budget, and
\* none is attached when the budget is 0.
C6_BudgetInEveryMode ==
    \A p \in Procs :
        Succeeded(p) => \A j \in Attached(p) : WithinBudget(resp[p].content[j].data)

\* C6 (amended): in every successful Path-mode response no attached image is over
\* the budget and a budget of 0 attaches none; an Inline-mode response attaches
\* every image of the outcome, whatever the budget.
C6_BudgetInPathMode ==
    \A p \in Procs :
        /\ Succeeded(p) /\ PathMode(p) =>
               \A j \in Attached(p) : WithinBudget(resp[p].content[j].data)
        /\ Succeeded(p) /\ InlineMode(p) =>
               /\ Attached(p) = 1..Len(images[p])
               /\ \A j \in Attached(p) : resp[p].content[j].data = images[p][j].base64

C6_Witness ==
    \E p \in Procs :
        /\ Succeeded(p) /\ PathMode(p)
        /\ Budget = 3
        /\ Len(images[p]) = 2
        /\ images[p][1].base64 = B8
        /\ images[p][2].base64 = B4
        /\ Cardinality(Attached(p)) = 1

SavedIdx(p) == {save[p].saved[k].idx : k \in 1..Len(save[p].saved)}
ErrorIdx(p) == {save[p].errors[k].idx : k \in 1..Len(save[p].errors)}
SummaryLines(p) == resp[p].content[1].lines
LinesOf(p, kind) == {j \in 1..Len(SummaryLines(p)) : SummaryLines(p)[j].k = kind}

\* C7: in Path mode a failing item (no payload, a payload of zero bytes, a failed
\* write) does not stop the save loop: while it runs the items before the current
\* one are each saved or recorded as an error, and when it ends every index 1..m
\* is in exactly one of the two lists, the summary has a Markdown line followed by
\* a path line per saved file and then a line per error, and the response is a
\* success.
C7_SaveLoopCoversEveryItem ==
    \A p \in Procs :
        /\ pc[p] = "write" =>
               /\ Len(save[p].saved) + Len(save[p].errors) = save[p].i - 1
               /\ SavedIdx(p) \cup ErrorIdx(p) = 1..(save[p].i - 1)
        /\ Done(p) /\ save[p].i > 0 =>
               /\ resp[p].st = "ok"
               /\ Len(save[p].saved) + Len(save[p].errors) = Len(images[p])
               /\ SavedIdx(p) \cup ErrorIdx(p) = 1..Len(images[p])
               /\ SavedIdx(p) \cap ErrorIdx(p) = {}
               /\ resp[p].content[1].type = "text"
               /\ Cardinality(LinesOf(p, "md")) = Len(save[p].saved)
               /\ Cardinality(LinesOf(p, "path")) = Len(save[p].saved)
               /\ Cardinality(LinesOf(p, "err")) = Len(save[p].errors)
               /\ \A j \in LinesOf(p, "md") :
                      /\ j + 1 \in LinesOf(p, "path")
                      /\ SummaryLines(p)[j + 1].path = SummaryLines(p)[j].path
               /\ {SummaryLines(p)[j].path.idx : j \in LinesOf(p, "md")} = SavedIdx(p)
               /\ {SummaryLines(p)[j].idx : j \in LinesOf(p, "err")} = ErrorIdx(p)
               /\ \A j \in LinesOf(p, "md") \cup LinesOf(p, "path") :
                      \A e \in LinesOf(p, "err") : j < e

C7_Witness ==
    \E p \in Procs :
        /\ Succeeded(p) /\ PathMode(p)
        /\ Len(images[p]) = 2
        /\ ErrorIdx(p) = {1}
        /\ SavedIdx(p) = {2}

\* C8: directories and files are created only by a Path-mode invocation whose
\* generation step returned a non-empty outcome: an Inline invocation, a rejected
\* one (unknown tool, empty prompt) and one whose generation failed leave the
\* filesystem as it was.
C8_FilesystemOnlyInPathMode ==
    /\ dirs # {} \/ DOMAIN files # {} =>
           \E p \in Procs : PathMode(p) /\ Started(p) /\ images[p] # <<>>
    /\ \A p \in Procs :
           InlineMode(p) \/ ~Started(p) \/ images[p] = <<>> => wrote[p] = {}
    /\ \A q \in DOMAIN files : q.dir \in dirs

C8_Witness ==
    \E p \in Procs :
        /\ Succeeded(p) /\ InlineMode(p)
        /\ Len(images[p]) = 2
        /\ dirs = {} /\ DOMAIN files = {}

\* C9: with invocations running concurrently in Path mode on one output
\* directory, no path is written by two invocations, so every file an invocation
\* lists as saved holds what that invocation wrote.
C9_NoPathWrittenTwice ==
    /\ \A p, q \in Procs : p # q => wrote[p] \cap wrote[q] = {}
    /\ \A p \in Procs : \A k \in 1..Len(save[p].saved) :
           files[save[p].saved[k]].by = p

\* C11: no image of a successful response carries a payload that decodes to zero
\* bytes or is not decodable base64; in particular an Inline invocation for one
\* image whose only payload is such a text ends with an error, not with a success
\* attaching it.
C11_NoUndecodableImageAttached ==
    \A p \in Procs :
        Succeeded(p) => \A j \in Attached(p) : isValidBase64(resp[p].content[j].data)

\* C12: a chat/completions POST is issued only when the mode is not images and
\* either the mode is not auto (chat or an unrecognised value, whose first POST is
\* the chat one) or the mode is auto and the images/generations POST itself was
\* answered 404; in auto mode a 2xx images/generations answer whose image-URL GET
\* fails (a 404 included) or that holds no usable item ends the invocation with
\* that error and no chat POST; in images mode no chat POST is ever issued.
C12_ChatPostOnlyWhenAllowed ==
    \A p \in Procs :
        /\ ChatPosts(p) # {} =>
               /\ ReadMode(env.mode) # ModeImages
               /\ \/ ReadMode(env.mode) # ModeAuto
                  \/ Log(p)[1].ep = "images" /\ Log(p)[1].st = "http404"
        /\ AutoMode(p) /\ Log(p) # <<>> /\ Log(p)[1].st = "ok"
              /\ (Log(p)[1].getFailed \/ Log(p)[1].usable = 0) =>
               /\ ChatPosts(p) = {}
               /\ Failed(p)
               /\ resp[p].err \in {"get_" \o g.st : g \in GetFailures} \cup {"no_images"}
               /\ Log(p)[1].usable = 0 => resp[p].err = "no_images"
        /\ ReadMode(env.mode) = ModeImages /\ Started(p) =>
               /\ ChatPosts(p) = {}
               /\ ImagesPosts(p) = {1}
        /\ ChatMode(p) => ImagesPosts(p) = {} /\ Log(p) # <<>>

C12_Witness ==
    \E p \in Procs :
        /\ AutoMode(p)
        /\ Len(Log(p)) = 1
        /\ Log(p)[1].ep = "images"
        /\ Log(p)[1].st = "ok"
        /\ Log(p)[1].getFailed
        /\ Failed(p)
        /\ resp[p].err = "get_http404"

\* C10: normalizing the canonical request again yields the same canonical request
\* (normalize(normalize(x)) = normalize(x)) for every accepted argument bag.
C10_NormalizeIdempotent ==
    norm.stage = "twice" => norm.second = norm.first

\* size, count, output mode and prompt alone are stable under renormalization
C10_FieldsButOutDirStable ==
    norm.stage = "twice" =>
        /\ norm.second.prompt = norm.first.prompt
        /\ norm.second.size = norm.first.size
        /\ norm.second.n = norm.first.n
        /\ norm.second.output = norm.first.output

====
